---- MODULE Spec2Model ----
(***************************************************************************)
(* A model of package testivus (src/testivus.go, lines 1-302): the store   *)
(* of disappointments, the calls that record into it (Grievance, Failure,  *)
(* the With* mutators of a handle), summarize, String, report and Run.     *)
(***************************************************************************)
EXTENDS Integers, Sequences, FiniteSets, TLC

\* ------------------------------------------------------------------ bounds

\* Parallel test goroutines; worker w runs the test named TestNames[w].
NumWorkers == 2
\* Grievance/Failure calls made during one run of the suite (all workers).
MaxCalls == 2
\* Longest tag list passed to one Grievance/Failure call.
MaxArgTags == 3
\* Longest tag list a record may reach through WithTags.
MaxTagLen == 2
\* Calls made during one run of the suite where all tag lists are tried.
MaxStoreCalls == 3
\* Calls each of the parallel callers makes in the stress run.
StressCalls == 2
\* Sessions (process runs) against the same output path.
MaxSessions == 2

\* ------------------------------------------------------------- value sets

Workers == 1..NumWorkers

\* The goroutine that executes Run (it is no test worker).
Main == 0

\* t.Name() of the test each worker runs; distinct tests have distinct names.
TestNames == <<"A", "B", "C", "D">>

Name(w) == TestNames[w]

Tests == {Name(w) : w \in Workers}

\* Tag strings, listed in byte order (the order encoding/json sorts keys in).
TagOrder == <<"download", "speed">>

Tags == {TagOrder[i] : i \in 1..Len(TagOrder)}

Messages == {"m1", "m2"}

\* Error() texts, listed in byte order; NoError is the nil error.
ErrorOrder == <<"EOF", "timeout exceeded">>

Errors == {ErrorOrder[i] : i \in 1..Len(ErrorOrder)}

NoError == "nil"

SeqsUpTo(S, n) == UNION {[1..k -> S] : k \in 0..n}

\* ------------------------------------------------------------------ state

VARIABLES
    running,      \* "nil" before Run allocates the store, "set" after
    Grievances,   \* running.Grievances: test name -> sequence of records
    Summary,      \* running.Summary: the field json.Encode(d) serializes
    lock,         \* holders of running's sync.Mutex: {} or one goroutine
    pc,           \* position of each worker in Grievance/Failure
    frame,        \* the arguments of each worker's call in progress
    last,         \* the call that returned in the last step, if one did
    calls,        \* Grievance/Failure calls each worker has made in this run
    failed,       \* tests marked failed by t.Fail()
    phase,        \* position of the main goroutine in Run/report
    verbose,      \* testing.Verbose()
    reportFile,   \* *reportFile, the -testivus.outputfile flag
    code,         \* the value m.Run() returned
    s,            \* the summary String computed (its local s)
    text,         \* the string String returned
    stdout,       \* what has been printed, one entry per Print call
    file,         \* contents of the output path, a sequence of tokens
    encoded,      \* the documents handed to the file, one per session
    err,          \* the error report returned
    syncErr,      \* whether out.Sync() failed (its result is discarded)
    exit,         \* <<>> until Run returns, then <<its result>>
    opens,        \* os.OpenFile calls report has made in this process
    session       \* number of the current process run

vars == <<running, Grievances, Summary, lock, pc, frame, last, calls, failed, phase,
          verbose, reportFile, code, s, text, stdout, file,
          encoded, err, syncErr, exit, opens, session>>

\* ------------------------------------------------------------ Go map, slice

EmptyMap == <<>>

IncrSet(m, k) == (k :> 1) @@ m

\* m[k] = m[k] + 1 on a Go map: a missing key reads as 0.
Incr(m, k) ==
    IF k \in DOMAIN m THEN [m EXCEPT ![k] = @ + 1] ELSE (k :> 1) @@ m

\* The handles Grievance has returned: <<test name, index>> of each record.
Handles(G) == UNION {{<<n, i>> : i \in 1..Len(G[n])} : n \in DOMAIN G}

Records(G) == {G[h[1]][h[2]] : h \in Handles(G)}

\* ------------------------------------------------------ disappointment

\* strings.Join(a, sep), as the sequence of its pieces.
RECURSIVE Join(_, _)
Join(a, sep) ==
    IF Len(a) = 0 THEN <<>>
    ELSE IF Len(a) = 1 THEN <<a[1]>>
    ELSE <<a[1], sep>> \o Join(Tail(a), sep)

\* disappointment.String(): the error is shown only beside tags.
DisappointmentString(d) ==
    IF Len(d.Tags) = 0 THEN <<d.Message>>
    ELSE IF d.Error # NoError
         THEN <<d.Message, " (">> \o Join(d.Tags, ", ") \o <<"): ", d.Error>>
         ELSE <<d.Message, " (">> \o Join(d.Tags, ", ") \o <<")">>

\* The loop of Grievance that builds uniq from tags with the used map.
RECURSIVE UniqLoop(_, _, _)
UniqLoop(tags, used, uniq) ==
    IF tags = <<>> THEN uniq
    ELSE IF Head(tags) \in used
         THEN UniqLoop(Tail(tags), used, uniq)
         ELSE UniqLoop(Tail(tags), used \cup {Head(tags)},
                       Append(uniq, Head(tags)))

UniqKeepAll(tags) == tags

Uniq(tags) == UniqLoop(tags, {}, <<>>)

\* g := &disappointment{Name: t.Name(), Message: msg, Tags: uniq}
NewDisappointment(name, msg, tags) ==
    [Message |-> msg, Tags |-> Uniq(tags), Error |-> NoError, Name |-> name]

StoreReplace(G, name, g) == (name :> <<g>>) @@ G

StorePrepend(G, name, g) ==
    IF name \notin DOMAIN G THEN (name :> <<g>>) @@ G
    ELSE [G EXCEPT ![name] = <<g>> \o @]

\* v, ok := Grievances[name]; the map gets []{g} or append(v, g).
Store(G, name, g) ==
    IF name \notin DOMAIN G THEN (name :> <<g>>) @@ G
    ELSE [G EXCEPT ![name] = Append(@, g)]

NoHandle == <<>>

NoFrame == [fn |-> "none", msg |-> "", tags |-> <<>>]

\* No call returned in the last step.
NoCall == [fn |-> "none", msg |-> "", tags |-> <<>>, ret |-> NoHandle]

RECURSIVE SumOver(_, _)
SumOver(f, S) ==
    IF S = {} THEN 0
    ELSE LET x == CHOOSE y \in S : TRUE IN f[x] + SumOver(f, S \ {x})

\* Calls made in this run of the suite, by all workers.
NumCalls == SumOver(calls, Workers)

\* -------------------------------------------------------------- summarize

\* The orders in which a range statement may visit the keys of a map.
Perms(S) ==
    {f \in [1..Cardinality(S) -> S] : \A i, j \in DOMAIN f : i # j => f[i] # f[j]}

KeysNilError(g, pass) ==
    CASE pass = "tag" -> g.Tags
      [] pass = "name" -> <<g.Name>>
      [] pass = "error" -> <<g.Error>>

\* What one record adds to the count map of a pass: its tags, its test
\* name, or its error text when it has an error.
Keys(g, pass) ==
    CASE pass = "tag" -> g.Tags
      [] pass = "name" -> <<g.Name>>
      [] pass = "error" -> IF g.Error # NoError THEN <<g.Error>> ELSE <<>>

\* The keys a pass over d.Grievances meets, in the order met, when the range
\* over the map visits the test names in order o (i: index in the slice).
RECURSIVE FlatMap(_, _, _, _)
FlatMap(G, o, i, pass) ==
    IF o = <<>> THEN <<>>
    ELSE IF i > Len(G[Head(o)]) THEN FlatMap(G, Tail(o), 1, pass)
    ELSE Keys(G[Head(o)][i], pass) \o FlatMap(G, o, i + 1, pass)

\* countBy[k] = countBy[k] + 1 for every key met.
RECURSIVE CountLoop(_, _)
CountLoop(keys, m) ==
    IF keys = <<>> THEN m ELSE CountLoop(Tail(keys), Incr(m, Head(keys)))

\* count += len(v) for every v of the map.
RECURSIVE CountLen(_, _)
CountLen(G, o) ==
    IF o = <<>> THEN 0 ELSE Len(G[Head(o)]) + CountLen(G, Tail(o))

TotalAfterNameLoop(G, o) == CountLen(G, o) + CountLen(G, o)

\* s.Total = count, assigned between the tag pass and the name pass.
TotalCount(G, o) == CountLen(G, o)

LessAscending(a, b) == a.Count < b.Count

\* The less function given to sort.SliceStable.
Less(a, b) == a.Count > b.Count

\* One insertion of the stable insertion sort: x goes before the first row
\* it is less than, behind every row it is not.
RECURSIVE InsertRow(_, _)
InsertRow(sorted, x) ==
    IF sorted = <<>> THEN <<x>>
    ELSE IF Less(x, Head(sorted)) THEN <<x>> \o sorted
    ELSE <<Head(sorted)>> \o InsertRow(Tail(sorted), x)

RECURSIVE SortLoop(_, _)
SortLoop(rows, sorted) ==
    IF rows = <<>> THEN sorted
    ELSE SortLoop(Tail(rows), InsertRow(sorted, Head(rows)))

SliceStable(rows) == SortLoop(rows, <<>>)

\* for k, c := range countBy { rows = append(rows, reportRow{k, c}) }, the
\* range visiting the keys in order r.
RowsOf(m, r) == [i \in 1..Len(r) |-> [ID |-> r[i], Count |-> m[r[i]]]]

\* The summary value of a fresh disappointments struct: nothing assigned.
ZeroSummary ==
    [Total |-> 0, ByName |-> EmptyMap, ByTag |-> EmptyMap, ByError |-> EmptyMap,
     nameRows |-> <<>>, tagRows |-> <<>>, errorRows |-> <<>>, nilMaps |-> TRUE]

\* The count map one pass builds.
CountBy(G, o, pass) == CountLoop(FlatMap(G, o, 1, pass), EmptyMap)

\* summarize(): o1, o2, o3 are the orders of the three ranges over
\* d.Grievances, r1, r2, r3 those of the ranges over the three count maps.
Summarize(G, o1, o2, o3, r1, r2, r3) ==
    LET countByTag == CountBy(G, o1, "tag")
        countByName == CountBy(G, o2, "name")
        countByError == CountBy(G, o3, "error")
    IN  [Total |-> TotalCount(G, o1),
         ByName |-> countByName,
         ByTag |-> countByTag,
         ByError |-> countByError,
         nameRows |-> SliceStable(RowsOf(countByName, r2)),
         tagRows |-> SliceStable(RowsOf(countByTag, r1)),
         errorRows |-> SliceStable(RowsOf(countByError, r3)),
         nilMaps |-> FALSE]

\* The keys of a pass in the order the pass first inserted them in its map
\* (seen: the keys inserted so far).
RECURSIVE FirstInserted(_, _)
FirstInserted(keys, seen) ==
    IF keys = <<>> THEN <<>>
    ELSE IF Head(keys) \in seen THEN FirstInserted(Tail(keys), seen)
    ELSE <<Head(keys)>> \o FirstInserted(Tail(keys), seen \cup {Head(keys)})

\* ----------------------------------------------------------------- String

Digits == <<"0", "1", "2", "3", "4", "5", "6", "7", "8", "9">>

\* The decimal digits of n >= 0, as %d and encoding/json write an int.
RECURSIVE Itoa(_)
Itoa(n) ==
    IF n < 10 THEN <<Digits[n + 1]>>
    ELSE Itoa(n \div 10) \o <<Digits[(n % 10) + 1]>>

\* strings.Repeat(x, n)
Repeat(x, n) == [i \in 1..n |-> x]

CleanRun == <<"No disapointments, you are truly master of your domain.\n">>

TotalLine(n) ==
    <<"I got a lot of problems with you people! (">> \o Itoa(n)
        \o <<" disappointments)\n">>

\* The lines "\t%s\t%d\t%s\n" of one section.
RECURSIVE RowLines(_)
RowLines(rows) ==
    IF rows = <<>> THEN <<>>
    ELSE <<"\t", Head(rows).ID, "\t">> \o Itoa(Head(rows).Count) \o <<"\t">>
             \o Repeat("|", Head(rows).Count) \o <<"\n">> \o RowLines(Tail(rows))

RenderAlwaysCounts(sm, v) == TotalLine(sm.Total)

\* What String returns for the summary sm (column padding left out).
RenderString(sm, v) ==
    IF sm.Total = 0 THEN CleanRun
    ELSE IF ~v THEN TotalLine(sm.Total)
    ELSE <<"\n=== The airing of grievances:\n">> \o TotalLine(sm.Total)
         \o (IF Len(sm.tagRows) > 0
             THEN <<"\nBy Tag:\n">> \o RowLines(sm.tagRows) ELSE <<>>)
         \o (IF Len(sm.errorRows) > 0
             THEN <<"\nBy Error:\n">> \o RowLines(sm.errorRows) ELSE <<>>)
         \o <<"\nBy Test:\n">> \o RowLines(sm.nameRows) \o <<"\n">>

\* ------------------------------------------------------------ json.Encode

\* The keys of a map in the order encoding/json writes them (sorted).
SortedKeys(m, order) == SelectSeq(order, LAMBDA k : k \in DOMAIN m)

\* A []string: null for the nil slice Grievance leaves when no tag is given.
JSONTags(tags) ==
    IF tags = <<>> THEN <<"null">> ELSE <<"[">> \o Join(tags, ",") \o <<"]">>

\* An error value of errors.New or pkg/errors has no exported field.
JSONError(e) == IF e = NoError THEN "null" ELSE "{}"

JSONRecord(g) ==
    <<"{", "message:", g.Message, ",", "tags:">> \o JSONTags(g.Tags)
        \o <<",", "error:", JSONError(g.Error), ",", "testName:", g.Name, "}">>

RECURSIVE JSONRecords(_)
JSONRecords(v) ==
    IF v = <<>> THEN <<>>
    ELSE IF Len(v) = 1 THEN JSONRecord(v[1])
    ELSE JSONRecord(v[1]) \o <<",">> \o JSONRecords(Tail(v))

RECURSIVE JSONGrievances(_, _)
JSONGrievances(G, keys) ==
    IF keys = <<>> THEN <<>>
    ELSE <<Head(keys), ":", "[">> \o JSONRecords(G[Head(keys)]) \o <<"]">>
         \o (IF Len(keys) > 1 THEN <<",">> ELSE <<>>)
         \o JSONGrievances(G, Tail(keys))

RECURSIVE JSONCountPairs(_, _)
JSONCountPairs(m, keys) ==
    IF keys = <<>> THEN <<>>
    ELSE <<Head(keys), ":">> \o Itoa(m[Head(keys)])
         \o (IF Len(keys) > 1 THEN <<",">> ELSE <<>>)
         \o JSONCountPairs(m, Tail(keys))

\* A map[string]int: null when the map is nil.
JSONCounts(m, isNil, order) ==
    IF isNil THEN <<"null">>
    ELSE <<"{">> \o JSONCountPairs(m, SortedKeys(m, order)) \o <<"}">>

\* summary.MarshalJSON: byError only when not empty; keys written sorted.
MarshalJSON(sm) ==
    <<"{">>
    \o (IF DOMAIN sm.ByError # {}
        THEN <<"byError:">> \o JSONCounts(sm.ByError, FALSE, ErrorOrder) \o <<",">>
        ELSE <<>>)
    \o <<"byName:">> \o JSONCounts(sm.ByName, sm.nilMaps, TestNames) \o <<",">>
    \o <<"byTag:">> \o JSONCounts(sm.ByTag, sm.nilMaps, TagOrder) \o <<",">>
    \o <<"total:">> \o Itoa(sm.Total) \o <<"}">>

\* json.NewEncoder(out).Encode(d): the fields Grievances and Summary of d.
EncodeDoc(G, sm) ==
    <<"{", "grievances:", "{">> \o JSONGrievances(G, SortedKeys(G, TestNames))
    \o <<"}", ",", "summary:">> \o MarshalJSON(sm) \o <<"}", "\n">>

\* A write of doc at offset 0 of a file opened O_CREATE|O_WRONLY: the bytes
\* under doc are replaced, the bytes beyond it stay.
WriteAtStart(f, doc) == doc \o SubSeq(f, Len(doc) + 1, Len(f))

\* ------------------------------------------------------------------- Init

OutputPath == "testivus.json"

\* A process before Run: the package variable running is nil, the flags
\* are not parsed yet, no test has run.
InitProcess ==
    /\ verbose = FALSE
    /\ reportFile = ""
    /\ running = "nil"
    /\ Grievances = EmptyMap
    /\ Summary = ZeroSummary
    /\ lock = {}
    /\ pc = [w \in Workers |-> "idle"]
    /\ frame = [w \in Workers |-> NoFrame]
    /\ last = NoCall
    /\ calls = [w \in Workers |-> 0]
    /\ failed = {}
    /\ phase = "Idle"
    /\ code = 0
    /\ s = ZeroSummary
    /\ text = <<>>
    /\ stdout = <<>>
    /\ err = "nil"
    /\ syncErr = FALSE
    /\ exit = <<>>
    /\ opens = 0

Init ==
    /\ InitProcess
    /\ file = <<>>
    /\ encoded = <<>>
    /\ session = 1

\* ----------------------------------------------------- Grievance, Failure

\* A test calls Grievance(t, msg, tags...): it reaches running.Lock().
CallGrievance(w, msg, tags) ==
    /\ phase \in {"Idle", "Running"}
    /\ pc[w] = "idle"
    /\ calls' = [calls EXCEPT ![w] = @ + 1]
    /\ pc' = [pc EXCEPT ![w] = "waiting"]
    /\ frame' = [frame EXCEPT ![w] =
                    [fn |-> "Grievance", msg |-> msg, tags |-> tags]]
    /\ last' = NoCall
    /\ UNCHANGED <<running, Grievances, Summary, lock, failed, phase, verbose,
                   reportFile, code, s, text, stdout, file, encoded,
                   err, syncErr, exit, opens, session>>

CallFailureNoFail(w, msg, tags) ==
    /\ phase \in {"Idle", "Running"}
    /\ pc[w] = "idle"
    /\ calls' = [calls EXCEPT ![w] = @ + 1]
    /\ pc' = [pc EXCEPT ![w] = "waiting"]
    /\ frame' = [frame EXCEPT ![w] =
                    [fn |-> "Failure", msg |-> msg, tags |-> tags]]
    /\ last' = NoCall
    /\ UNCHANGED <<running, Grievances, Summary, lock, failed, phase, verbose,
                   reportFile, code, s, text, stdout, file, encoded,
                   err, syncErr, exit, opens, session>>

\* A test calls Failure(t, msg, tags...): t.Fail(), then Grievance.
CallFailure(w, msg, tags) ==
    /\ phase \in {"Idle", "Running"}
    /\ pc[w] = "idle"
    /\ calls' = [calls EXCEPT ![w] = @ + 1]
    /\ failed' = failed \cup {Name(w)}
    /\ pc' = [pc EXCEPT ![w] = "waiting"]
    /\ frame' = [frame EXCEPT ![w] =
                    [fn |-> "Failure", msg |-> msg, tags |-> tags]]
    /\ last' = NoCall
    /\ UNCHANGED <<running, Grievances, Summary, lock, phase, verbose,
                   reportFile, code, s, text, stdout, file, encoded,
                   err, syncErr, exit, opens, session>>

\* running.Lock() with running set: the caller waits until the mutex is free.
GrievanceLock(w) ==
    /\ pc[w] = "waiting"
    /\ running = "set"
    /\ lock = {}
    /\ lock' = {w}
    /\ pc' = [pc EXCEPT ![w] = "locked"]
    /\ last' = NoCall
    /\ UNCHANGED <<calls, opens>>
    /\ UNCHANGED <<running, Grievances, Summary, frame, failed, phase, verbose,
                   reportFile, code, s, text, stdout, file, encoded,
                   err, syncErr, exit, session>>

GrievanceNilProceeds(w) ==
    /\ pc[w] = "waiting"
    /\ running = "nil"
    /\ lock = {}
    /\ lock' = {w}
    /\ pc' = [pc EXCEPT ![w] = "locked"]
    /\ last' = NoCall
    /\ UNCHANGED <<calls, opens>>
    /\ UNCHANGED <<running, Grievances, Summary, frame, failed, phase, verbose,
                   reportFile, code, s, text, stdout, file, encoded,
                   err, syncErr, exit, session>>

\* running.Lock() with running nil: a nil pointer dereference, which ends
\* the process.
GrievancePanic(w) ==
    /\ pc[w] = "waiting"
    /\ running = "nil"
    /\ pc' = [pc EXCEPT ![w] = "panicked"]
    /\ phase' = "Crashed"
    /\ last' = NoCall
    /\ UNCHANGED <<calls, opens>>
    /\ UNCHANGED <<running, Grievances, Summary, lock, frame, failed, verbose,
                   reportFile, code, s, text, stdout, file, encoded,
                   err, syncErr, exit, session>>

GrievanceStoreKeepsLock(w) ==
    /\ pc[w] = "locked"
    /\ LET g == NewDisappointment(Name(w), frame[w].msg, frame[w].tags)
           G2 == Store(Grievances, Name(w), g)
       IN  /\ Grievances' = G2
           /\ stdout' = stdout
           /\ last' = [fn |-> frame[w].fn, msg |-> frame[w].msg,
                        tags |-> frame[w].tags,
                        ret |-> <<Name(w), Len(G2[Name(w)])>>]
    /\ frame' = [frame EXCEPT ![w] = NoFrame]
    /\ lock' = IF Name(w) \in DOMAIN Grievances THEN {} ELSE lock
    /\ pc' = [pc EXCEPT ![w] = "idle"]
    /\ UNCHANGED <<calls, opens>>
    /\ UNCHANGED <<running, Summary, failed, phase, verbose, reportFile, code,
                   s, text, file, encoded, err, syncErr, exit, session>>

\* The body of Grievance under the lock, to its return (the deferred Unlock).
GrievanceStore(w) ==
    /\ pc[w] = "locked"
    /\ LET g == NewDisappointment(Name(w), frame[w].msg, frame[w].tags)
           G2 == Store(Grievances, Name(w), g)
       IN  /\ Grievances' = G2
           /\ stdout' = IF verbose
                        THEN Append(stdout, <<"GRIEVANCE:", " ">>
                                 \o DisappointmentString(g) \o <<"\n">>)
                        ELSE stdout
           /\ last' = [fn |-> frame[w].fn, msg |-> frame[w].msg,
                        tags |-> frame[w].tags,
                        ret |-> <<Name(w), Len(G2[Name(w)])>>]
    /\ frame' = [frame EXCEPT ![w] = NoFrame]
    /\ lock' = {}
    /\ pc' = [pc EXCEPT ![w] = "idle"]
    /\ UNCHANGED <<calls, opens>>
    /\ UNCHANGED <<running, Summary, failed, phase, verbose, reportFile, code,
                   s, text, file, encoded, err, syncErr, exit, session>>

\* ------------------------------------------------------- handle mutators

\* A handle is a pointer to the record the store holds: a mutator assigns
\* one field through it and returns it (store: the store afterwards, ret:
\* the handle returned).
\* d.Message = msg; return d
WithMessageResult(G, h, msg) ==
    [store |-> [G EXCEPT ![h[1]][h[2]].Message = msg], ret |-> h]

\* d.Error = err; return d
WithErrorResult(G, h, e) ==
    [store |-> [G EXCEPT ![h[1]][h[2]].Error = e], ret |-> h]

WithTagsOnCopy(G, h, tags) == [store |-> G, ret |-> h]

\* d.Tags = append(d.Tags, tags...); return d
WithTagsResult(G, h, tags) ==
    [store |-> [G EXCEPT ![h[1]][h[2]].Tags = @ \o tags], ret |-> h]

\* h.WithMessage(msg) on a handle Grievance returned.
WithMessage(h, msg) ==
    /\ phase = "Running"
    /\ h \in Handles(Grievances)
    /\ Grievances' = WithMessageResult(Grievances, h, msg).store
    /\ last' = NoCall
    /\ UNCHANGED <<calls, opens>>
    /\ UNCHANGED <<running, Summary, lock, pc, frame, failed, phase, verbose,
                   reportFile, code, s, text, stdout, file, encoded,
                   err, syncErr, exit, session>>

\* h.WithError(e)
WithError(h, e) ==
    /\ phase = "Running"
    /\ h \in Handles(Grievances)
    /\ Grievances' = WithErrorResult(Grievances, h, e).store
    /\ last' = NoCall
    /\ UNCHANGED <<calls, opens>>
    /\ UNCHANGED <<running, Summary, lock, pc, frame, failed, phase, verbose,
                   reportFile, code, s, text, stdout, file, encoded,
                   err, syncErr, exit, session>>

\* h.WithTags(tags...): d.Tags = append(d.Tags, tags...)
WithTags(h, tags) ==
    /\ phase = "Running"
    /\ h \in Handles(Grievances)
    /\ Len(Grievances[h[1]][h[2]].Tags) + Len(tags) <= MaxTagLen
    /\ Grievances' = WithTagsResult(Grievances, h, tags).store
    /\ last' = NoCall
    /\ UNCHANGED <<calls, opens>>
    /\ UNCHANGED <<running, Summary, lock, pc, frame, failed, phase, verbose,
                   reportFile, code, s, text, stdout, file, encoded,
                   err, syncErr, exit, session>>

\* ---------------------------------------------- goroutines left behind
\* m.Run() waits for the test functions, not for the goroutines they
\* started: such a goroutine still holds its t and its handles when Run has
\* gone on to report.

Reporting == {"String", "Summarize", "Printf"}

\* A goroutine test w left behind calls Grievance(t, msg, tags...): nothing
\* in Grievance looks at how far Run is. (Failure would panic in t.Fail().)
LeakedGrievance(w, msg, tags) ==
    /\ phase \in Reporting
    /\ pc[w] = "idle"
    /\ calls' = [calls EXCEPT ![w] = @ + 1]
    /\ pc' = [pc EXCEPT ![w] = "waiting"]
    /\ frame' = [frame EXCEPT ![w] =
                    [fn |-> "Grievance", msg |-> msg, tags |-> tags]]
    /\ last' = NoCall
    /\ UNCHANGED <<running, Grievances, Summary, lock, failed, phase, verbose,
                   reportFile, code, s, text, stdout, file, encoded,
                   err, syncErr, exit, opens, session>>

\* A goroutine left behind calls h.WithMessage(msg) on a handle it holds.
LeakedWithMessage(h, msg) ==
    /\ phase \in Reporting
    /\ h \in Handles(Grievances)
    /\ Grievances' = WithMessageResult(Grievances, h, msg).store
    /\ last' = NoCall
    /\ UNCHANGED <<calls, opens>>
    /\ UNCHANGED <<running, Summary, lock, pc, frame, failed, phase, verbose,
                   reportFile, code, s, text, stdout, file, encoded,
                   err, syncErr, exit, session>>

\* ------------------------------------------------------------ Run, report

\* Run: flag.Parse() reads -test.v and -testivus.outputfile from the
\* command line, running = newDisappointments(m), m.Run() begins.
Run(v, f) ==
    /\ phase = "Idle"
    /\ verbose' = v
    /\ reportFile' = f
    /\ running' = "set"
    /\ Grievances' = EmptyMap
    /\ Summary' = ZeroSummary
    /\ phase' = "Running"
    /\ last' = NoCall
    /\ UNCHANGED <<calls, opens>>
    /\ UNCHANGED <<lock, pc, frame, failed, code, s, text, stdout,
                   file, encoded, err, syncErr, exit, session>>

\* m.Run() returns once every test function has returned: 1 when a test
\* was marked failed, else 0 or 1 (a test may fail on its own).
SuiteReturn(c) ==
    /\ phase = "Running"
    /\ \A w \in Workers : pc[w] = "idle"
    /\ failed # {} => c = 1
    /\ code' = c
    /\ frame' = [w \in Workers |-> NoFrame]
    /\ phase' = "String"
    /\ last' = NoCall
    /\ UNCHANGED <<calls, opens>>
    /\ UNCHANGED <<running, Grievances, Summary, lock, pc, failed, verbose,
                   reportFile, s, text, stdout, file, encoded, err,
                   syncErr, exit, session>>

\* report calls d.String(), which takes the lock.
StringLock ==
    /\ phase = "String"
    /\ lock = {}
    /\ lock' = {Main}
    /\ phase' = "Summarize"
    /\ last' = NoCall
    /\ UNCHANGED <<calls, opens>>
    /\ UNCHANGED <<running, Grievances, Summary, pc, frame, failed, verbose,
                   reportFile, code, s, text, stdout, file, encoded,
                   err, syncErr, exit, session>>

\* String under the lock: s := d.summarize(), the text, the deferred Unlock.
\* Each range over a map visits its keys in an order of the runtime's choice.
StringReturn ==
    /\ phase = "Summarize"
    /\ \E o1, o2, o3 \in Perms(DOMAIN Grievances) :
         \E r1 \in Perms(DOMAIN CountBy(Grievances, o1, "tag")),
            r2 \in Perms(DOMAIN CountBy(Grievances, o2, "name")),
            r3 \in Perms(DOMAIN CountBy(Grievances, o3, "error")) :
              s' = Summarize(Grievances, o1, o2, o3, r1, r2, r3)
    /\ text' = RenderString(s', verbose)
    /\ lock' = {}
    /\ phase' = "Printf"
    /\ last' = NoCall
    /\ UNCHANGED <<calls, opens>>
    /\ UNCHANGED <<running, Grievances, Summary, pc, frame, failed, verbose,
                   reportFile, code, file, encoded, err, syncErr, exit,
                   stdout, session>>

\* How Run ends once report has returned e: 1 and a printed line for an
\* error, else the suite's code.
RunResult(e, c) == IF e # "nil" THEN 1 ELSE c

RunOutput(out, e) ==
    IF e # "nil" THEN Append(out, <<"could not save report: ", e, "\n">>)
    ELSE out

\* report with no output file: fmt.Printf(d.String()), return nil; Run
\* returns the suite's code.
ReportPrint ==
    /\ phase = "Printf"
    /\ reportFile = ""
    /\ stdout' = RunOutput(Append(stdout, text), "nil")
    /\ err' = "nil"
    /\ exit' = <<RunResult("nil", code)>>
    /\ phase' = "Done"
    /\ last' = NoCall
    /\ UNCHANGED <<calls, opens>>
    /\ UNCHANGED <<running, Grievances, Summary, lock, pc, frame, failed,
                   verbose, reportFile, code, s, text, file, encoded,
                   syncErr, session>>

\* The error report returns: from os.OpenFile, else from Encode, else nil
\* (the results of out.Sync() and of the deferred out.Close() are discarded).
ReportErr(openOK, encodeOK, syncOK) ==
    IF ~openOK THEN "open" ELSE IF ~encodeOK THEN "encode" ELSE "nil"

\* What a failed Encode leaves written: nothing, or the first half of the
\* document (a short write).
ShortWrites(doc) == {<<>>, SubSeq(doc, 1, Len(doc) \div 2)}

ReportSaveRetry(openOK, encodeOK, syncOK) ==
    /\ phase = "Printf"
    /\ reportFile # ""
    /\ opens < 2
    /\ ~openOK => encodeOK /\ syncOK
    /\ ~encodeOK => syncOK
    /\ LET doc == EncodeDoc(Grievances, Summary)
           e == ReportErr(openOK, encodeOK, syncOK)
       IN  /\ \E written \in IF ~openOK THEN {<<>>}
                             ELSE IF encodeOK THEN {doc} ELSE ShortWrites(doc) :
                 file' = WriteAtStart(file, written)
           /\ encoded' = IF openOK /\ encodeOK THEN Append(encoded, doc) ELSE encoded
           /\ err' = e
           /\ syncErr' = ~syncOK
           /\ stdout' = RunOutput(Append(stdout, text), e)
           /\ exit' = IF e # "nil" THEN <<>> ELSE <<RunResult(e, code)>>
           /\ phase' = IF e # "nil" THEN "Printf" ELSE "Done"
    /\ opens' = opens + 1
    /\ last' = NoCall
    /\ UNCHANGED calls
    /\ UNCHANGED <<running, Grievances, Summary, lock, pc, frame, failed,
                   verbose, reportFile, code, s, text, session>>

\* report with an output file: fmt.Printf(d.String()), os.OpenFile with
\* O_CREATE|O_WRONLY, json.NewEncoder(out).Encode(d), out.Sync(); then the
\* end of Run.
ReportSave(openOK, encodeOK, syncOK) ==
    /\ phase = "Printf"
    /\ reportFile # ""
    /\ ~openOK => encodeOK /\ syncOK
    /\ ~encodeOK => syncOK
    /\ LET doc == EncodeDoc(Grievances, Summary)
           e == ReportErr(openOK, encodeOK, syncOK)
       IN  /\ \E written \in IF ~openOK THEN {<<>>}
                             ELSE IF encodeOK THEN {doc} ELSE ShortWrites(doc) :
                 file' = WriteAtStart(file, written)
           /\ encoded' = IF openOK /\ encodeOK THEN Append(encoded, doc) ELSE encoded
           /\ err' = e
           /\ syncErr' = ~syncOK
           /\ stdout' = RunOutput(Append(stdout, text), e)
           /\ exit' = <<RunResult(e, code)>>
    /\ opens' = opens + 1
    /\ phase' = "Done"
    /\ last' = NoCall
    /\ UNCHANGED calls
    /\ UNCHANGED <<running, Grievances, Summary, lock, pc, frame, failed,
                   verbose, reportFile, code, s, text, session>>

\* A later run of the test binary: a new process, the same file system.
NewSession ==
    /\ phase \in {"Done", "Crashed"}
    /\ session < MaxSessions
    /\ session' = session + 1
    /\ verbose' = FALSE
    /\ reportFile' = ""
    /\ running' = "nil"
    /\ Grievances' = EmptyMap
    /\ Summary' = ZeroSummary
    /\ lock' = {}
    /\ pc' = [w \in Workers |-> "idle"]
    /\ frame' = [w \in Workers |-> NoFrame]
    /\ last' = NoCall
    /\ calls' = [w \in Workers |-> 0]
    /\ failed' = {}
    /\ phase' = "Idle"
    /\ code' = 0
    /\ s' = ZeroSummary
    /\ text' = <<>>
    /\ stdout' = <<>>
    /\ err' = "nil"
    /\ syncErr' = FALSE
    /\ exit' = <<>>
    /\ opens' = 0
    /\ UNCHANGED <<file, encoded>>

\* ------------------------------------------------------------------- Spec

ArgTags == SeqsUpTo(Tags, MaxArgTags)

\* The steps of a call once it is made.
CallSteps ==
    \/ \E w \in Workers : GrievanceLock(w)
    \/ \E w \in Workers : GrievancePanic(w)
    \/ \E w \in Workers : GrievanceStore(w)

\* The steps of Run from the return of the suite to the end of String.
RunSteps ==
    \/ \E c \in {0, 1} : SuiteReturn(c)
    \/ StringLock
    \/ StringReturn

\* The whole program, on few values: one message and the tag lists over
\* "speed" in the calls; one new message, one error and one tag in the
\* mutators.
SmallTags == SeqsUpTo({"speed"}, MaxArgTags)

Next ==
    \/ \E w \in Workers, tags \in SmallTags :
          NumCalls < MaxCalls /\ CallGrievance(w, "m1", tags)
    \/ \E w \in Workers, tags \in SmallTags :
          NumCalls < MaxCalls /\ CallFailure(w, "m1", tags)
    \/ CallSteps
    \/ \E h \in Handles(Grievances) : WithMessage(h, "m2")
    \/ \E h \in Handles(Grievances) : WithError(h, "timeout exceeded")
    \/ \E h \in Handles(Grievances) : WithTags(h, <<"speed">>)
    \/ \E v \in BOOLEAN, f \in {"", OutputPath} : Run(v, f)
    \/ RunSteps
    \/ ReportPrint
    \/ \E openOK, encodeOK, syncOK \in BOOLEAN : ReportSave(openOK, encodeOK, syncOK)

Spec == Init /\ [][Next]_vars

\* The store and its summary on all tag lists and errors: a run without -v
\* whose tests pass and call Grievance, WithError and WithTags, up to the
\* return of String.
NextStore ==
    \/ \E w \in Workers, tags \in ArgTags :
          NumCalls < MaxStoreCalls /\ CallGrievance(w, "m1", tags)
    \/ CallSteps
    \/ \E h \in Handles(Grievances), e \in Errors \cup {NoError} : WithError(h, e)
    \/ \E h \in Handles(Grievances), tags \in ArgTags \ {<<>>} : WithTags(h, tags)
    \/ Run(FALSE, "")
    \/ SuiteReturn(0)
    \/ StringLock
    \/ StringReturn

SpecStore == Init /\ [][NextStore]_vars

\* The stress run: every worker calls Grievance StressCalls times under its
\* own test name, in parallel with the others.
NextStress ==
    \/ \E w \in Workers, tags \in SmallTags :
          calls[w] < StressCalls /\ CallGrievance(w, "m1", tags)
    \/ CallSteps
    \/ \E v \in BOOLEAN : Run(v, "")
    \/ RunSteps
    \/ ReportPrint

SpecStress == Init /\ [][NextStress]_vars

\* The stress run under the scheduling Go gives it: a goroutine that can
\* run does run (weak fairness of the steps that need no lock), and a
\* goroutine waiting in sync.Mutex.Lock gets the mutex once it has been
\* free often enough, the mutex handing itself to a starved waiter (strong
\* fairness of the lock steps).
Scheduling ==
    /\ \A w \in Workers : SF_vars(GrievanceLock(w))
    /\ \A w \in Workers : WF_vars(GrievanceStore(w))
    /\ SF_vars(StringLock)
    /\ WF_vars(StringReturn)

SpecLive == Init /\ [][NextStress]_vars /\ Scheduling

\* Sessions one after the other that save to the same output path, every
\* save succeeding.
NextSessions ==
    \/ \E w \in Workers, tags \in SmallTags :
          NumCalls < MaxCalls /\ CallGrievance(w, "m1", tags)
    \/ CallSteps
    \/ Run(FALSE, OutputPath)
    \/ RunSteps
    \/ ReportSave(TRUE, TRUE, TRUE)
    \/ NewSession

SpecSessions == Init /\ [][NextSessions]_vars

\* A run that saves its report while goroutines its tests left behind go
\* on calling Grievance and WithMessage.
NextLeak ==
    \/ \E w \in Workers :
          NumCalls < MaxCalls /\ CallGrievance(w, "m1", <<>>)
    \/ CallSteps
    \/ \E h \in Handles(Grievances) : WithMessage(h, "m2")
    \/ Run(FALSE, OutputPath)
    \/ RunSteps
    \/ ReportSave(TRUE, TRUE, TRUE)
    \/ \E w \in Workers :
          NumCalls < MaxCalls /\ LeakedGrievance(w, "m1", <<>>)
    \/ \E h \in Handles(Grievances) : LeakedWithMessage(h, "m2")

SpecLeak == Init /\ [][NextLeak]_vars

\* ----------------------------------------------------------------- claims

Range(q) == {q[i] : i \in DOMAIN q}

NoRepeats(q) == \A i, j \in DOMAIN q : i # j => q[i] # q[j]

\* The count a map holds for k, 0 when k is no key of it.
CountAt(m, k) == IF k \in DOMAIN m THEN m[k] ELSE 0

\* String has returned: s is the summary of the store.
Summarized == phase \in {"Printf", "Done"}

RecordAt(h) == Grievances[h[1]][h[2]]

\* C1: once the suite has returned after N Grievance/Failure calls, under
\* any test names and with any mutators in between, the Total that
\* summarize computes is N.
TotalIsNumberOfCalls == Summarized => s.Total = NumCalls

TotalWitness ==
    /\ phase = "Done"
    /\ s.Total = MaxCalls
    /\ DOMAIN Grievances = Tests
    /\ \E g \in Records(Grievances) :
          g.Message = "m2" /\ g.Error # NoError /\ Len(g.Tags) = 2

\* C2: parallel callers under distinct test names lose no write: each
\* worker's records are the calls it has completed, and when each of the
\* NumWorkers workers has made its StressCalls calls the store holds
\* StressCalls records under each name and Total is their product.
StressNoLostWrites ==
    /\ \A w \in Workers :
          pc[w] = "idle" =>
             Len(IF Name(w) \in DOMAIN Grievances
                 THEN Grievances[Name(w)] ELSE <<>>) = calls[w]
    /\ (\A w \in Workers : pc[w] = "idle" /\ calls[w] = StressCalls) =>
          /\ \A w \in Workers : Len(Grievances[Name(w)]) = StressCalls
          /\ Cardinality(Handles(Grievances)) = NumWorkers * StressCalls
          /\ Summarized => s.Total = NumWorkers * StressCalls

StressWitness ==
    /\ phase = "Done"
    /\ \A w \in Workers : calls[w] = StressCalls
    /\ s.Total = NumWorkers * StressCalls

\* C3: Run returns zero only if the suite's code was zero and, when an
\* output file is configured, the report was saved (opened, written and
\* synced without error); in every other case it returns non-zero.
Saved == err = "nil" /\ ~syncErr

ExitZeroOnlyIfPassedAndSaved ==
    (phase = "Done" /\ exit = <<0>>) =>
       (code = 0 /\ (reportFile # "" => Saved))

\* C4: the document report writes holds every recorded Disappointment and
\* a summary whose total, byTag and byName are those summarize computed.
\* doc has the pieces x right after the piece key.
FieldIs(doc, key, x) ==
    \E i \in 1..Len(doc) : doc[i] = key /\ SubSeq(doc, i + 1, i + Len(x)) = x

Contains(doc, x) ==
    \E i \in 0..(Len(doc) - Len(x)) : SubSeq(doc, i + 1, i + Len(x)) = x

\* The counts written under key are those of m (null read as no counts).
CountsAre(doc, key, m, order) ==
    \/ FieldIs(doc, key, JSONCounts(m, FALSE, order))
    \/ DOMAIN m = {} /\ FieldIs(doc, key, <<"null">>)

SavedDocumentHasSummary ==
    (phase = "Done" /\ reportFile # "" /\ err = "nil") =>
       LET doc == encoded[Len(encoded)]
       IN  /\ \A g \in Records(Grievances) : Contains(doc, JSONRecord(g))
           /\ FieldIs(doc, "total:", Itoa(s.Total) \o <<"}">>)
           /\ CountsAre(doc, "byTag:", s.ByTag, TagOrder)
           /\ CountsAre(doc, "byName:", s.ByName, TestNames)

\* C5: sessions that save to the same path accumulate: the file holds the
\* documents of the sessions so far back-to-back, in session order.
RECURSIVE Concat(_)
Concat(docs) == IF docs = <<>> THEN <<>> ELSE Head(docs) \o Concat(Tail(docs))

FileAccumulates == file = Concat(encoded)

\* C6: each row list orders equal counts by first discovery: it is the
\* stable sort of the rows in the order in which a pass over the store
\* (in some order o of its test names) first met the keys.
DiscoveryRows(m, pass) ==
    {SliceStable(RowsOf(m, FirstInserted(FlatMap(Grievances, o, 1, pass), {}))) :
        o \in Perms(DOMAIN Grievances)}

RowsInDiscoveryOrder ==
    phase = "Printf" =>
       /\ s.tagRows \in DiscoveryRows(s.ByTag, "tag")
       /\ s.nameRows \in DiscoveryRows(s.ByName, "name")
       /\ s.errorRows \in DiscoveryRows(s.ByError, "error")

\* C7: each row list is sorted by count descending and has exactly one row
\* per key of its count map, with that map's count.
SortedRowsOf(rows, m) ==
    /\ \A i \in 1..(Len(rows) - 1) : rows[i].Count >= rows[i + 1].Count
    /\ Len(rows) = Cardinality(DOMAIN m)
    /\ \A k \in DOMAIN m : \E i \in 1..Len(rows) : rows[i] = [ID |-> k, Count |-> m[k]]

RowsSortedDescending ==
    phase = "Printf" =>
       /\ SortedRowsOf(s.tagRows, s.ByTag)
       /\ SortedRowsOf(s.nameRows, s.ByName)
       /\ SortedRowsOf(s.errorRows, s.ByError)

RowsSortedWitness ==
    /\ phase = "Printf"
    /\ Len(s.tagRows) = 2 /\ s.tagRows[1].Count > s.tagRows[2].Count
    /\ Len(s.nameRows) = 2 /\ s.nameRows[1].Count > s.nameRows[2].Count
    /\ Len(s.errorRows) = 2 /\ s.errorRows[1].Count > s.errorRows[2].Count

\* C8: in every reachable state no stored Disappointment has a tag twice.
NoDuplicateTags == \A g \in Records(Grievances) : NoRepeats(g.Tags)

\* C9: ByTag[t] is the number of stored records whose tags contain t.
ByTagCountsRecords ==
    Summarized =>
       \A t \in Tags :
          CountAt(s.ByTag, t) =
             Cardinality({h \in Handles(Grievances) : t \in Range(RecordAt(h).Tags)})

\* C10: the record a Grievance call stores has the distinct tags of the
\* call, each once, in the order of their first occurrence in the call.
FirstIndex(q, x) == CHOOSE i \in DOMAIN q : q[i] = x /\ \A j \in 1..(i - 1) : q[j] # x

GrievanceKeepsFirstOccurrences ==
    last.fn # "none" =>
       LET stored == RecordAt(last.ret).Tags
       IN  /\ NoRepeats(stored)
           /\ Range(stored) = Range(last.tags)
           /\ \A i, j \in DOMAIN stored :
                 i < j => FirstIndex(last.tags, stored[i]) < FirstIndex(last.tags, stored[j])

GrievanceRepeatsWitness ==
    /\ last.fn = "Grievance"
    /\ last.tags = <<"speed", "download", "speed">>
    /\ RecordAt(last.ret).Tags = <<"speed", "download">>

\* C11: ByError[e] is the number of stored records whose error reads e,
\* errors attached through WithError after the record was stored included;
\* a record without an error adds to no entry, so the keys of ByError are
\* error texts only.
ByErrorCountsRecords ==
    Summarized =>
       /\ DOMAIN s.ByError \subseteq Errors
       /\ \A e \in Errors :
             CountAt(s.ByError, e) =
                Cardinality({h \in Handles(Grievances) : RecordAt(h).Error = e})

ByErrorWitness ==
    /\ phase = "Printf"
    /\ Cardinality(Handles(Grievances)) = 3
    /\ CountAt(s.ByError, "timeout exceeded") = 2
    /\ CountAt(s.ByError, "EOF") = 0
    /\ \E h \in Handles(Grievances) : RecordAt(h).Error = NoError

\* C12: ByName[n] is the number of records the store holds under n, and the
\* counts of ByName add up to Total.
ByNameCountsRecords ==
    Summarized =>
       /\ DOMAIN s.ByName = DOMAIN Grievances
       /\ \A n \in Tests :
             CountAt(s.ByName, n) =
                (IF n \in DOMAIN Grievances THEN Len(Grievances[n]) ELSE 0)
       /\ SumOver(s.ByName, DOMAIN s.ByName) = s.Total

ByNameWitness ==
    /\ phase = "Done"
    /\ CountAt(s.ByName, Name(1)) = StressCalls
    /\ CountAt(s.ByName, Name(2)) = 1
    /\ s.Total = StressCalls + 1

\* C13: String returns the clean-run message exactly when the store holds
\* no record, with and without -v, and no text it returns reports a count
\* of 0 disappointments.
CleanRunOnlyWhenEmpty ==
    Summarized =>
       /\ Handles(Grievances) = {} <=> text = CleanRun
       /\ ~Contains(text, TotalLine(0))

CleanRunWitness ==
    /\ phase = "Printf"
    /\ verbose
    /\ Handles(Grievances) = {}
    /\ text = CleanRun

\* C14: every step that changes the store or a stored record while the
\* suite runs (Grievance, Failure, WithMessage, WithError, WithTags) is
\* taken with the store's lock held.
MutationsHoldLock ==
    [][(phase = "Running" /\ Grievances' # Grievances) => lock # {}]_vars

\* C15: no step that prints to standard output or writes the file is taken
\* while the store's lock is held, with and without -v.
NoIOUnderLock ==
    [][(session' = session /\ (stdout' # stdout \/ file' # file)) => lock = {}]_vars

\* C16: a Grievance or Failure call that finds the store not yet created
\* by Run panics at the call: it takes no lock, stores no record, returns
\* no handle, and the process ends without Run returning a result.
CallBeforeRunPanics ==
    /\ running = "nil" =>
          /\ Grievances = EmptyMap
          /\ lock = {}
          /\ last = NoCall
          /\ \A w \in Workers : pc[w] # "locked"
    /\ \A w \in Workers :
          pc[w] = "panicked" =>
             /\ running = "nil"
             /\ phase = "Crashed"
             /\ exit = <<>>
             /\ err = "nil"

CallBeforeRunWitness ==
    \E w \in Workers :
       /\ pc[w] = "panicked"
       /\ frame[w].fn = "Failure"
       /\ Name(w) \in failed
       /\ \E v \in Workers : pc[v] = "panicked" /\ frame[v].fn = "Grievance"

\* C17: a process with an output file configured makes the persistence
\* attempt once: never before report has the rendered text, never again
\* after a failure, once when Run has returned; the attempt is made after
\* the suite returned and String rendered the text, with the store's lock
\* free; a process without an output file makes none.
PersistedOnce ==
    /\ opens <= 1
    /\ reportFile = "" => opens = 0
    /\ phase # "Done" => opens = 0
    /\ phase = "Printf" => lock = {} /\ text = RenderString(s, verbose)
    /\ (phase = "Done" /\ reportFile # "") =>
          /\ opens = 1
          /\ lock = {}
          /\ text = RenderString(s, verbose)
          /\ \E i \in DOMAIN stdout : stdout[i] = text

PersistedOnceWitness ==
    /\ phase = "Done"
    /\ reportFile # ""
    /\ opens = 1
    /\ err = "open"
    /\ exit = <<1>>
    /\ Handles(Grievances) # {}

\* C18: from the moment report is entered the store is frozen: no step
\* taken while report summarizes, prints and saves changes the store or a
\* stored record, so what is saved is what was summarized.
StoreFrozenWhileReporting ==
    [][(phase \in Reporting) => (Grievances' = Grievances)]_vars

\* C19: the store is append-only: no step of a process removes a test
\* name or shortens a sequence, and a returning Grievance call for test n
\* has put its record behind n's earlier records, which keep their places
\* and contents, every other test's sequence staying as it was.
StoreIsAppendOnly ==
    [][(session' = session) =>
          /\ \A n \in DOMAIN Grievances :
                /\ n \in DOMAIN Grievances'
                /\ Len(Grievances'[n]) >= Len(Grievances[n])
          /\ (last'.fn # "none") =>
                LET n == last'.ret[1]
                    old == IF n \in DOMAIN Grievances THEN Grievances[n] ELSE <<>>
                IN  /\ last'.ret[2] = Len(old) + 1
                    /\ Len(Grievances'[n]) = Len(old) + 1
                    /\ SubSeq(Grievances'[n], 1, Len(old)) = old
                    /\ Grievances'[n][Len(old) + 1].Name = n
                    /\ Grievances'[n][Len(old) + 1].Message = last'.msg
                    /\ DOMAIN Grievances' = DOMAIN Grievances \cup {n}
                    /\ \A m \in DOMAIN Grievances \ {n} :
                          Grievances'[m] = Grievances[m]]_vars

AppendWitness ==
    /\ last.fn = "Grievance"
    /\ last.ret = <<Name(1), 2>>
    /\ RecordAt(<<Name(1), 1>>).Tags # RecordAt(<<Name(1), 2>>).Tags
    /\ RecordAt(<<Name(1), 1>>).Error # NoError
    /\ Name(2) \in DOMAIN Grievances

\* C20: WithMessage, WithError and WithTags return the handle they were
\* called on and change the stored record itself, each its own field only:
\* after any chain of the three on a handle Grievance returned, the record
\* in the store has the new message, the new error and the old tags
\* followed by the new ones under its old name, every other record being
\* as before; and the records as the mutators left them are the ones
\* summarize counts and the saved document holds.
ChainArgs == {<<"speed">>, <<"download", "speed">>}

OnlyChanged(G, G2, h) ==
    /\ Handles(G2) = Handles(G)
    /\ \A k \in Handles(G) \ {h} : G2[k[1]][k[2]] = G[k[1]][k[2]]

MutatorsChainInPlace ==
    /\ phase = "Running" =>
          \A h \in Handles(Grievances) :
             \A msg \in Messages, e \in Errors \cup {NoError}, tags \in ChainArgs :
                LET g == RecordAt(h)
                    r1 == WithMessageResult(Grievances, h, msg)
                    r2 == WithErrorResult(r1.store, r1.ret, e)
                    r3 == WithTagsResult(r2.store, r2.ret, tags)
                IN  /\ r1.ret = h /\ r2.ret = h /\ r3.ret = h
                    /\ r1.store[h[1]][h[2]] = [g EXCEPT !.Message = msg]
                    /\ r2.store[h[1]][h[2]] = [g EXCEPT !.Message = msg, !.Error = e]
                    /\ r3.store[h[1]][h[2]] =
                          [Message |-> msg, Tags |-> g.Tags \o tags,
                           Error |-> e, Name |-> g.Name]
                    /\ OnlyChanged(Grievances, r1.store, h)
                    /\ OnlyChanged(r1.store, r2.store, h)
                    /\ OnlyChanged(r2.store, r3.store, h)
    /\ Summarized =>
          /\ \A e \in Errors :
                CountAt(s.ByError, e) =
                   Cardinality({h \in Handles(Grievances) : RecordAt(h).Error = e})
          /\ SumOver(s.ByTag, DOMAIN s.ByTag) =
                SumOver([h \in Handles(Grievances) |-> Len(RecordAt(h).Tags)],
                        Handles(Grievances))
    /\ (phase = "Done" /\ reportFile # "" /\ err = "nil") =>
          \A g \in Records(Grievances) :
             Contains(encoded[Len(encoded)], JSONRecord(g))

MutatorsChainWitness ==
    /\ phase = "Done"
    /\ reportFile # ""
    /\ err = "nil"
    /\ \E h \in Handles(Grievances) :
          /\ RecordAt(h) = [Message |-> "m2", Tags |-> <<"speed">>,
                            Error |-> "timeout exceeded", Name |-> h[1]]
          /\ CountAt(s.ByError, "timeout exceeded") = 1
          /\ CountAt(s.ByTag, "speed") = 1
          /\ Contains(encoded[Len(encoded)], JSONRecord(RecordAt(h)))

\* C21: Failure marks its test failed before it does anything else, and
\* then stores what Grievance stores for the same arguments: one record
\* under the test's name, at the end of its sequence, with the message
\* and the deduplicated tags of the call, whose handle it returns.
StoredByCall ==
    last.fn # "none" =>
       /\ last.ret = <<last.ret[1], Len(Grievances[last.ret[1]])>>
       /\ RecordAt(last.ret) =
             [Message |-> last.msg, Tags |-> Uniq(last.tags),
              Error |-> NoError, Name |-> last.ret[1]]

FailureStoresAsGrievance ==
    /\ StoredByCall
    /\ last.fn = "Failure" => last.ret[1] \in failed
    /\ \A w \in Workers :
          frame[w].fn = "Failure" => Name(w) \in failed
    /\ (running = "set" /\ \A w \in Workers : pc[w] = "idle") =>
          Cardinality(Handles(Grievances)) = NumCalls

FailureWitness ==
    /\ last.fn = "Failure"
    /\ last.tags = <<"speed", "speed">>
    /\ RecordAt(last.ret).Tags = <<"speed">>
    /\ last.ret = <<Name(2), 1>>
    /\ failed = {Name(2)}
    /\ Name(1) \in DOMAIN Grievances

\* C22: Grievance and String release the store's lock on every way out and
\* never ask for it while they hold it: a caller that is idle, and Run once
\* String has returned, hold no lock, the holder is always a goroutine
\* inside Grievance or String, and under fair scheduling every Grievance
\* caller waiting for the lock of a created store gets back from its call
\* and the String call report makes returns.
LockHolders ==
    /\ Cardinality(lock) <= 1
    /\ \A w \in Workers : (w \in lock) <=> (pc[w] = "locked")
    /\ (Main \in lock) <=> (phase = "Summarize")

LockAlwaysReleased ==
    /\ []LockHolders
    /\ \A w \in Workers :
          (pc[w] = "waiting" /\ running = "set") ~> (pc[w] = "idle")
    /\ (phase = "String") ~> (phase = "Printf")

LockContendedWitness ==
    /\ running = "set"
    /\ lock = {1}
    /\ pc[1] = "locked"
    /\ pc[2] = "waiting"
    /\ calls[1] = StressCalls
    /\ calls[2] = StressCalls
    /\ Name(1) \in DOMAIN Grievances
    /\ Name(2) \in DOMAIN Grievances

====
